---- MODULE Spec2Model ----
(***************************************************************************)
(* christmas-mcp-mariadb: the MCP server of src/lib/mcp.js (version 1.2.0, *)
(* lines 1-416).  Six tools over one mysql2 connection pool; every         *)
(* statement goes through executeWithRetry.                                *)
(*                                                                         *)
(* SQL texts are sequences of one-character strings, so that trim(),       *)
(* toUpperCase() and startsWith() are computed and not assumed.            *)
(***************************************************************************)
EXTENDS Naturals, Sequences, FiniteSets, TLC

VARIABLES
  load,    \* the workload of the run (fixed per run), see Workload
  calls,   \* per handler slot: the tool call in flight, its position and its locals
  pool,    \* the mysql2 pool: idle connections, leases, FIFO queue of waiting callers
  life,    \* the process: signals handled, state of the pool's close, stdin, exit
  boot     \* startup: mcp.json and environment, configuration, probe, diagnostic

vars == <<load, calls, pool, life, boot>>

(***************************************************************************)
(* Bounds of the exploration.                                              *)
(***************************************************************************)
\* handler slots of the concurrent workload (tool calls in flight at once)
NumCalls == 3
\* connectionLimit of createPool; the source sets 10 (src/lib/mcp.js:28), the
\* model runs the same pool with a small limit so that NumCalls exceeds it
connectionLimit == 2
\* termination signals delivered to the process in one run
MaxSignals == 2

\* default value of executeWithRetry's retries parameter; no caller overrides it
retries == 2

Slots == 1 .. NumCalls

(***************************************************************************)
(* Characters and strings                                                  *)
(***************************************************************************)
lowerLetters ==
  <<"a","b","c","d","e","f","g","h","i","j","k","l","m",
    "n","o","p","q","r","s","t","u","v","w","x","y","z">>
upperLetters ==
  <<"A","B","C","D","E","F","G","H","I","J","K","L","M",
    "N","O","P","Q","R","S","T","U","V","W","X","Y","Z">>

\* the characters String.prototype.trim removes (those that occur in the inputs)
WhiteSpace == {" ", "\t", "\n"}

IndexOf(ch, letters) ==
  IF \E i \in 1 .. Len(letters) : letters[i] = ch
    THEN CHOOSE i \in 1 .. Len(letters) : letters[i] = ch
    ELSE 0

\* String.prototype.toUpperCase, one character
upperChar(ch) ==
  IF IndexOf(ch, lowerLetters) > 0 THEN upperLetters[IndexOf(ch, lowerLetters)] ELSE ch

\* String.prototype.toUpperCase
toUpperCaseNoop(s) == s
toUpperCase(s) == [i \in 1 .. Len(s) |-> upperChar(s[i])]

RECURSIVE trimStart(_)
trimStart(s) ==
  IF s # <<>> /\ Head(s) \in WhiteSpace THEN trimStart(Tail(s)) ELSE s

RECURSIVE trimEnd(_)
trimEnd(s) ==
  IF s # <<>> /\ s[Len(s)] \in WhiteSpace THEN trimEnd(SubSeq(s, 1, Len(s) - 1)) ELSE s

\* String.prototype.trim
trimNoop(s) == s
trim(s) == trimEnd(trimStart(s))

\* String.prototype.startsWith
startsWith(s, prefix) ==
  Len(prefix) <= Len(s) /\ SubSeq(s, 1, Len(prefix)) = prefix

(***************************************************************************)
(* The keywords the handlers test for                                      *)
(***************************************************************************)
SELECT   == <<"S","E","L","E","C","T">>
SHOW     == <<"S","H","O","W">>
DESCRIBE == <<"D","E","S","C","R","I","B","E">>
EXPLAIN  == <<"E","X","P","L","A","I","N">>
CREATE   == <<"C","R","E","A","T","E">>
ALTER    == <<"A","L","T","E","R">>
INSERT   == <<"I","N","S","E","R","T">>
DELETE   == <<"D","E","L","E","T","E">>
UPDATE   == <<"U","P","D","A","T","E">>
DROP     == <<"D","R","O","P">>
TRUNCATE == <<"T","R","U","N","C","A","T","E">>

\* const trimmedSql = sql.trim().toUpperCase();   (both handlers)
trimmedSql(sql) == toUpperCase(trim(sql))

\* query_database: the condition whose negation throws the policy error
isQueryAllowedAny(sql) == TRUE
isQueryAllowed(sql) ==
  \/ startsWith(trimmedSql(sql), SELECT)
  \/ startsWith(trimmedSql(sql), SHOW)
  \/ startsWith(trimmedSql(sql), DESCRIBE)
  \/ startsWith(trimmedSql(sql), EXPLAIN)

\* execute_sql: const isDangerous
isDangerousNoTruncate(sql) ==
  \/ startsWith(trimmedSql(sql), DELETE)
  \/ startsWith(trimmedSql(sql), UPDATE)
  \/ startsWith(trimmedSql(sql), DROP)
isDangerous(sql) ==
  \/ startsWith(trimmedSql(sql), DELETE)
  \/ startsWith(trimmedSql(sql), UPDATE)
  \/ startsWith(trimmedSql(sql), DROP)
  \/ startsWith(trimmedSql(sql), TRUNCATE)

\* execute_sql: if (isDangerous && !confirm)
needsConfirmationAlways(sql, confirm) == isDangerous(sql)
needsConfirmation(sql, confirm) == isDangerous(sql) /\ ~confirm

\* execute_sql: const isStructural (computed, read by nothing)
isStructural(sql) ==
  \/ startsWith(trimmedSql(sql), CREATE)
  \/ startsWith(trimmedSql(sql), ALTER)
  \/ startsWith(trimmedSql(sql), INSERT)

(***************************************************************************)
(* What a client may send.  A text is a word in some letter case, padded   *)
(* or not with surrounding whitespace, followed or not by an operand.      *)
(***************************************************************************)
GRANT   == <<"G","R","A","N","T">>
SETWORD == <<"S","E","T">>
SELECTX == <<"S","E","L","E","C","T","X">>
DROPALL == <<"D","R","O","P","A","L","L">>

Keywords ==
  {SELECT, SHOW, DESCRIBE, EXPLAIN, CREATE, ALTER, INSERT, DELETE, UPDATE, DROP, TRUNCATE}
Words == Keywords \cup {GRANT, SETWORD, SELECTX, DROPALL, <<>>}

lowerChar(ch) ==
  IF IndexOf(ch, upperLetters) > 0 THEN lowerLetters[IndexOf(ch, upperLetters)] ELSE ch
toLowerCase(s) == [i \in 1 .. Len(s) |-> lowerChar(s[i])]
mixedCase(s) == [i \in 1 .. Len(s) |-> IF i % 2 = 1 THEN lowerChar(s[i]) ELSE s[i]]

Cased(w) == {w, toLowerCase(w), mixedCase(w)}
Padded(s) == {s, <<" ", "\t">> \o s \o <<"\n">>}
Operand(w) == {w, w \o <<" ", "1">>}

Universe ==
  UNION {UNION {Padded(s) : s \in UNION {Cased(o) : o \in Operand(w)}} : w \in Words}

Tools ==
  {"query_database", "execute_sql", "list_tables", "describe_table",
   "show_databases", "server_info"}

(***************************************************************************)
(* What the driver may answer.  pool.execute resolves to [rows, fields],   *)
(* rows being an array (row result) or a ResultSetHeader object (write     *)
(* result), or rejects with an Error carrying message and, for most        *)
(* errors, code; fatal errors are those that leave the connection unusable.*)
(***************************************************************************)
NoCode == "undefined"

ConnLost ==
  [message |-> "Connection lost: The server closed the connection.",
   code |-> "PROTOCOL_CONNECTION_LOST", fatal |-> TRUE]
ConnClosed ==
  [message |-> "Can't add new command when connection is in closed state",
   code |-> NoCode, fatal |-> TRUE]
ParseError ==
  [message |-> "You have an error in your SQL syntax",
   code |-> "ER_PARSE_ERROR", fatal |-> FALSE]

DriverErrors == {ConnLost, ConnClosed, ParseError}

\* what pool.execute rejects with once pool.end() has been called
PoolIsClosed == [message |-> "Pool is closed.", code |-> "POOL_CLOSED", fatal |-> FALSE]

\* a property that may be undefined: <<>> when it is, <<v>> when its value is v
undefined == <<>>
defined(v) == <<v>>
Optional(values) == {undefined} \cup {defined(v) : v \in values}

\* the properties of a result that execute_sql reads; an array of rows has none
Headers ==
  [affectedRows : {defined(0), defined(3)}, insertId : Optional({0, 7}),
   changedRows : Optional({0, 1}), warningCount : Optional({0, 2})]
NoHeader ==
  [affectedRows |-> undefined, insertId |-> undefined,
   changedRows |-> undefined, warningCount |-> undefined]

\* field descriptors as the driver delivers them
IdField ==
  [name |-> "id", type |-> "LONG", length |-> "11", table |-> "users", flags |-> "PRI"]
NameField ==
  [name |-> "name", type |-> "VAR_STRING", length |-> "255", table |-> "users", flags |-> ""]

RowA == [id |-> "1", name |-> "ann"]
RowB == [id |-> "2", name |-> "bob"]

\* [rows, fields] of a statement that returns rows
RowResult(rows, fields) ==
  [kind |-> "rows", rows |-> rows, fields |-> fields, header |-> NoHeader]
\* [ResultSetHeader, undefined] of a statement that returns none; fields, which
\* the handlers only test and measure, is <<>> for undefined as for []
WriteResult(header) ==
  [kind |-> "write", rows |-> <<>>, fields |-> <<>>, header |-> header]

RowsOne   == RowResult(<<RowA>>, <<IdField, NameField>>)
RowsTwo   == RowResult(<<RowB, RowA>>, <<IdField, NameField>>)
RowsEmpty == RowResult(<<>>, <<IdField>>)
WriteRes  ==
  WriteResult([affectedRows |-> defined(3), insertId |-> defined(0),
               changedRows |-> undefined, warningCount |-> undefined])

DriverResults == {RowsOne, RowsEmpty, WriteRes}
RowResults == {RowsOne, RowsTwo, RowsEmpty}
WriteResults == {WriteResult(h) : h \in Headers}

Ok(result) == [ok |-> TRUE, val |-> result]
Failed(error) == [ok |-> FALSE, val |-> error]

(***************************************************************************)
(* Workloads.  GateLoad: one handler slot, every text of Universe, every   *)
(* tool, every driver answer.  PoolLoad: NumCalls concurrent slots on a    *)
(* pool of connectionLimit connections, every call a list_tables call, the *)
(* driver answering with rows or with a connection-state error.  The       *)
(* others are small workloads about result shapes, describe_table and the  *)
(* termination signals.                                                    *)
(***************************************************************************)
GateLoad ==
  [slots |-> {1}, texts |-> Universe, tools |-> Tools,
   errors |-> DriverErrors, results |-> DriverResults]

PoolLoad ==
  [slots |-> Slots, texts |-> {}, tools |-> {"list_tables"},
   errors |-> {ConnLost}, results |-> {RowsOne}]

\* one slot, a reading and a writing text, every shape of result
ShapeLoad ==
  [slots |-> {1}, texts |-> {SELECT \o <<" ", "1">>, toLowerCase(INSERT) \o <<" ", "1">>},
   tools |-> {"query_database", "execute_sql"},
   errors |-> {ParseError}, results |-> RowResults \cup WriteResults]

\* two slots, describe_table calls only
TwinLoad ==
  [slots |-> {1, 2}, texts |-> {}, tools |-> {"describe_table"},
   errors |-> {ParseError}, results |-> {RowsOne}]

\* one slot of list_tables calls while termination signals arrive
LifeLoad ==
  [slots |-> {1}, texts |-> {}, tools |-> {"list_tables"},
   errors |-> {ConnLost}, results |-> {RowsOne}]
BootLoad ==
  [slots |-> {1}, texts |-> {}, tools |-> {"list_tables"},
   errors |-> {ConnLost}, results |-> {RowsOne}]

Loads == {"gate", "pool", "shape", "twin", "life", "boot"}

\* what the client side sends and what the driver may answer in this run
Workload ==
  CASE load = "gate"  -> GateLoad
    [] load = "pool"  -> PoolLoad
    [] load = "shape" -> ShapeLoad
    [] load = "twin"  -> TwinLoad
    [] load = "life"  -> LifeLoad
    [] load = "boot"  -> BootLoad

(***************************************************************************)
(* The pool (mysql.createPool, lines 21-35; used through pool.execute,     *)
(* line 68).  pool.execute takes a connection, runs the statement and      *)
(* gives the connection back when the command ends.                        *)
(***************************************************************************)
\* the pool may open another connection
canGrowAlways(p) == TRUE
canGrow(p) == Cardinality(p.lessees) + p.idle < connectionLimit

\* pool.getConnection for caller c: an idle connection, else a new one under the
\* limit, else the caller waits in the queue
getConnectionOneAtATime(p, c) ==
  IF p.lessees # {}
    THEN [p EXCEPT !.queue = Append(@, c)]
    ELSE IF p.idle > 0
      THEN [p EXCEPT !.idle = @ - 1, !.lessees = @ \cup {c}]
      ELSE [p EXCEPT !.lessees = @ \cup {c}]
getConnection(p, c) ==
  IF p.idle > 0
    THEN [p EXCEPT !.idle = @ - 1, !.lessees = @ \cup {c}]
    ELSE IF canGrow(p)
      THEN [p EXCEPT !.lessees = @ \cup {c}]
      ELSE [p EXCEPT !.queue = Append(@, c)]

\* the command of caller c ended: its connection goes to the first waiting caller,
\* else back to the idle set; a connection that failed fatally is dropped from the
\* pool, and the first waiting caller then gets a fresh one
releaseKeepWaiting(p, c, broken) ==
  IF broken
    THEN [p EXCEPT !.lessees = @ \ {c}]
    ELSE [p EXCEPT !.lessees = @ \ {c}, !.idle = @ + 1]
releaseUnlessFailed(p, c, broken) ==
  IF broken THEN p ELSE [p EXCEPT !.lessees = @ \ {c}, !.idle = @ + 1]
releaseConnection(p, c, broken) ==
  IF p.queue # <<>>
    THEN [p EXCEPT !.lessees = (@ \ {c}) \cup {Head(p.queue)}, !.queue = Tail(@)]
    ELSE IF broken
      THEN [p EXCEPT !.lessees = @ \ {c}]
      ELSE [p EXCEPT !.lessees = @ \ {c}, !.idle = @ + 1]

\* caller c waits in the queue of pool p
queued(p, c) == \E i \in 1 .. Len(p.queue) : p.queue[i] = c

\* pool.execute (line 68) of caller c begins: it asks the pool for a connection,
\* unless the pool is closed, and then it is rejected without one
poolExecuteIgnoresClose(p, c) == getConnection(p, c)
poolExecute(p, c) == IF life.closed THEN p ELSE getConnection(p, c)

(***************************************************************************)
(* Handler slots                                                           *)
(***************************************************************************)
NoEnvelope == <<>>
NoTable == "undefined"
Tables == {"users", "orders; DROP TABLE users"}

NoStatement == [sql |-> "", params |-> <<>>]

IdleCall ==
  [pc |-> "idle", tool |-> "none", sql |-> <<>>, confirm |-> FALSE, table |-> NoTable,
   stmt |-> 0, attempt |-> 0, hist |-> <<>>, waited |-> FALSE,
   sent |-> NoStatement, logged |-> 0, envelope |-> NoEnvelope]

\* a handler entered with its arguments; stmt counts the executeWithRetry calls it
\* has made, hist[s] lists the outcomes of the attempts of its s-th statement,
\* waited tells whether its pending pool.execute call had to queue for a connection,
\* sent is the sql and the params of its latest executeWithRetry call, which every
\* attempt hands to pool.execute, logged counts the lines its executeWithRetry
\* calls have written with console.error
NewCall(tool, sql, confirm, table) ==
  [IdleCall EXCEPT !.pc = "running", !.tool = tool, !.sql = sql,
                   !.confirm = confirm, !.table = table]

Done(call, envelope) == [call EXCEPT !.pc = "done", !.envelope = envelope]

\* executeWithRetry('DESCRIBE ??', [table])
describeInterpolated(table) == [sql |-> "DESCRIBE " \o table, params |-> <<>>]
describeStatement(table) == [sql |-> "DESCRIBE ??", params |-> <<table>>]

\* the three executeWithRetry calls of server_info (lines 361-363)
serverInfoUptimeFirst ==
  <<[sql |-> "SHOW STATUS LIKE \"Uptime\"", params |-> <<>>],
    [sql |-> "SELECT VERSION() as version", params |-> <<>>],
    [sql |-> "SELECT DATABASE() as current_database", params |-> <<>>]>>
serverInfoStatements ==
  <<[sql |-> "SELECT VERSION() as version", params |-> <<>>],
    [sql |-> "SHOW STATUS LIKE \"Uptime\"", params |-> <<>>],
    [sql |-> "SELECT DATABASE() as current_database", params |-> <<>>]>>

\* the statements a handler hands to executeWithRetry, in order
statements(call) ==
  CASE call.tool = "query_database" -> <<[sql |-> call.sql, params |-> <<>>]>>
    [] call.tool = "execute_sql"    -> <<[sql |-> call.sql, params |-> <<>>]>>
    [] call.tool = "list_tables"    -> <<[sql |-> "SHOW TABLES", params |-> <<>>]>>
    [] call.tool = "describe_table" -> <<describeStatement(call.table)>>
    [] call.tool = "show_databases" -> <<[sql |-> "SHOW DATABASES", params |-> <<>>]>>
    [] call.tool = "server_info"    -> serverInfoStatements

(***************************************************************************)
(* Envelopes: what the handlers hand to JSON.stringify                     *)
(***************************************************************************)
\* errors raised by the handlers' own code
PolicyError ==
  [message |-> "Only SELECT, SHOW, DESCRIBE, and EXPLAIN queries are allowed with this tool",
   code |-> NoCode, fatal |-> FALSE]
TypeError == [message |-> "TypeError", code |-> NoCode, fatal |-> FALSE]

\* error.code || 'SQL_ERROR'
errorCodeRaw(error) == error.code
errorCode(error) == IF error.code = NoCode THEN "SQL_ERROR" ELSE error.code

\* the catch block of each handler
catchEnvelope(call, error) ==
  CASE call.tool \in {"query_database", "execute_sql"} ->
         [error |-> TRUE, message |-> error.message, code |-> errorCode(error),
          sql |-> call.sql]
    [] call.tool = "describe_table" ->
         [error |-> TRUE, message |-> error.message, code |-> errorCode(error),
          table |-> call.table]
    [] OTHER ->
         [error |-> TRUE, message |-> error.message, code |-> errorCode(error)]

\* execute_sql, lines 165-175
confirmationEnvelope(call) ==
  [error |-> TRUE,
   message |-> "This SQL statement is potentially dangerous. Set confirm=true to execute.",
   sql |-> call.sql, requiresConfirmation |-> TRUE]

\* the result of the s-th statement of a call all of whose statements succeeded
resultOf(call, s) == call.hist[s][Len(call.hist[s])].val

\* Array.isArray(rows)
isArray(result) == result.kind = "rows"

\* rows[0] is a row
hasFirstRow(result) == isArray(result) /\ Len(result.rows) > 0

\* the first element of a handler's destructuring: the array of rows, or the
\* ResultSetHeader object
firstOf(result) == IF isArray(result) THEN result.rows ELSE result.header

\* fields.map(field => ({ name: field.name, type: field.type, length: field.length }))
fieldInfo(fields) ==
  [i \in 1 .. Len(fields) |->
     [name |-> fields[i].name, type |-> fields[i].type, length |-> fields[i].length]]

\* responseData.key = value
withKey(envelope, key, value) ==
  [k \in DOMAIN envelope \cup {key} |-> IF k = key THEN value ELSE envelope[k]]

\* a number, or undefined, used as a condition
truthy(property) == property # undefined /\ property[1] # 0

\* if (result.insertId)
hasInsertIdDefined(header) == header.insertId # undefined
hasInsertId(header) == truthy(header.insertId)

\* if (result.changedRows !== undefined)
hasChangedRows(header) == header.changedRows # undefined

\* if (result.warningCount && result.warningCount > 0)
hasWarningCount(header) == truthy(header.warningCount) /\ header.warningCount[1] > 0

\* if (Array.isArray(result) && result.length > 0)
hasData(result) == isArray(result) /\ Len(result.rows) > 0

\* execute_sql, lines 180-212
responseData(call, result) ==
  LET h == result.header
      base == [success |-> TRUE, sql |-> call.sql,
               affectedRows |-> IF truthy(h.affectedRows) THEN h.affectedRows[1] ELSE 0,
               fieldCount |-> Len(result.fields)]
      d1 == IF hasInsertId(h) THEN withKey(base, "insertId", h.insertId[1]) ELSE base
      d2 == IF hasChangedRows(h) THEN withKey(d1, "changedRows", h.changedRows[1]) ELSE d1
      d3 == IF hasWarningCount(h) THEN withKey(d2, "warningCount", h.warningCount[1]) ELSE d2
      d4 == IF hasData(result)
              THEN withKey(withKey(d3, "data", result.rows), "rowCount", Len(result.rows))
              ELSE d3
  IN  IF Len(result.fields) > 0 THEN withKey(d4, "fields", fieldInfo(result.fields)) ELSE d4

\* the handler's own code threw inside its try block: its catch block answers
typeErrorEscapes(call) == NoEnvelope
typeErrorCaught(call) == catchEnvelope(call, TypeError)

\* the code after the last await of each handler: the success envelope, or the
\* catch block when that code throws a TypeError on the result's shape
respond(call) ==
  LET r == resultOf(call, 1) IN
  CASE call.tool = "query_database" ->
         [success |-> TRUE, data |-> firstOf(r),
          rowCount |-> IF isArray(r) THEN Len(r.rows) ELSE 0,
          fields |-> fieldInfo(r.fields)]
    [] call.tool = "execute_sql" -> responseData(call, r)
    [] call.tool = "list_tables" ->
         IF isArray(r)
           THEN [success |-> TRUE, tables |-> [i \in 1 .. Len(r.rows) |-> r.rows[i].id],
                 count |-> Len(r.rows)]
           ELSE typeErrorCaught(call)
    [] call.tool = "describe_table" ->
         IF isArray(r)
           THEN [success |-> TRUE, table |-> call.table, columns |-> r.rows,
                 columnCount |-> Len(r.rows)]
           ELSE [success |-> TRUE, table |-> call.table, columns |-> r.header]
    [] call.tool = "show_databases" ->
         IF isArray(r)
           THEN [success |-> TRUE, databases |-> [i \in 1 .. Len(r.rows) |-> undefined],
                 count |-> Len(r.rows)]
           ELSE typeErrorCaught(call)
    [] call.tool = "server_info" ->
         IF \A s \in 1 .. 3 : hasFirstRow(resultOf(call, s))
           THEN [success |-> TRUE, server |-> "info"]
           ELSE typeErrorCaught(call)

(***************************************************************************)
(* executeWithRetry (lines 65-82)                                          *)
(***************************************************************************)
\* for (...; attempt <= retries; ...)
loopContinues(attempt) == attempt <= retries

\* if (attempt === retries) throw error;
isLastAttemptNever(attempt) == FALSE
isLastAttemptFirst(attempt) == attempt = retries - 1
isLastAttempt(attempt) == attempt = retries

\* throw error: the error caught in this iteration, that of the latest attempt
rethrownFirst(attempts) == attempts[1].val
rethrown(attempts) == attempts[Len(attempts)].val

\* a handler calls executeWithRetry for its next statement: attempt = 1 and
\* pool.execute (line 68) asks pool p for a connection
executeWithRetry(c, call, p) ==
  /\ pool' = poolExecute(p, c)
  /\ calls' = [calls EXCEPT ![c] =
                 [call EXCEPT !.pc = "awaiting", !.stmt = @ + 1, !.attempt = 1,
                              !.hist = Append(@, <<>>),
                              !.sent = statements(call)[call.stmt + 1],
                              !.waited = queued(pool', c)]]

Finish(c, call, envelope, p) ==
  /\ calls' = [calls EXCEPT ![c] = Done(call, envelope)]
  /\ pool' = p

(***************************************************************************)
(* The tool handlers up to their first await                               *)
(***************************************************************************)
CanInvoke(c, tool) ==
  /\ boot.phase = "serving"
  /\ life.stdin = "open"
  /\ ~life.exited
  /\ c \in Workload.slots
  /\ tool \in Workload.tools
  /\ calls[c].pc = "idle"

query_database(c) ==
  /\ CanInvoke(c, "query_database")
  /\ \E sql \in Workload.texts :
       LET call == NewCall("query_database", sql, FALSE, NoTable) IN
       IF ~isQueryAllowed(sql)
         THEN Finish(c, call, catchEnvelope(call, PolicyError), pool)
         ELSE executeWithRetry(c, call, pool)
  /\ UNCHANGED <<load, life, boot>>

execute_sql(c) ==
  /\ CanInvoke(c, "execute_sql")
  /\ \E sql \in Workload.texts, confirm \in BOOLEAN :
       LET call == NewCall("execute_sql", sql, confirm, NoTable) IN
       IF needsConfirmation(sql, confirm)
         THEN Finish(c, call, confirmationEnvelope(call), pool)
         ELSE executeWithRetry(c, call, pool)
  /\ UNCHANGED <<load, life, boot>>

list_tables(c) ==
  /\ CanInvoke(c, "list_tables")
  /\ executeWithRetry(c, NewCall("list_tables", <<>>, FALSE, NoTable), pool)
  /\ UNCHANGED <<load, life, boot>>

describe_table(c) ==
  /\ CanInvoke(c, "describe_table")
  /\ \E table \in Tables :
       executeWithRetry(c, NewCall("describe_table", <<>>, FALSE, table), pool)
  /\ UNCHANGED <<load, life, boot>>

show_databases(c) ==
  /\ CanInvoke(c, "show_databases")
  /\ executeWithRetry(c, NewCall("show_databases", <<>>, FALSE, NoTable), pool)
  /\ UNCHANGED <<load, life, boot>>

server_info(c) ==
  /\ CanInvoke(c, "server_info")
  /\ executeWithRetry(c, NewCall("server_info", <<>>, FALSE, NoTable), pool)
  /\ UNCHANGED <<load, life, boot>>

(***************************************************************************)
(* The driver answers the command of call c, which holds a connection.     *)
(* The connection goes back to the pool; then the awaiting code runs on:   *)
(* a result returns from executeWithRetry to the handler (next statement   *)
(* or envelope), an error is logged and rethrown on the last attempt, and  *)
(* otherwise the one-second timer is started.                              *)
(***************************************************************************)
\* the process after a step of call c: hadFailure remembers that some handler
\* has caught a driver error and returned its failure envelope
afterAttempt(c) ==
  [life EXCEPT !.hadFailure =
     @ \/ (calls'[c].pc = "done" /\ ~calls'[c].hist[calls'[c].stmt][Len(calls'[c].hist[calls'[c].stmt])].ok)]

DriverAnswers ==
  {Ok(r) : r \in Workload.results} \cup {Failed(e) : e \in Workload.errors}

\* console.error of line 71, in the catch of an attempt
logLine(outcome) == IF outcome.ok THEN 0 ELSE 1

\* pool.execute of call c settled with outcome, and p is the pool after it
attemptSettled(c, outcome, p) ==
  LET call == [calls[c] EXCEPT !.hist[calls[c].stmt] = Append(@, outcome),
                               !.waited = FALSE,
                               !.logged = @ + logLine(outcome)]
  IN  IF outcome.ok
        THEN IF call.stmt < Len(statements(call))
               THEN executeWithRetry(c, call, p)
               ELSE Finish(c, call, respond(call), p)
        ELSE IF isLastAttempt(call.attempt)
               THEN Finish(c, call, catchEnvelope(call, rethrown(call.hist[call.stmt])), p)
               ELSE /\ calls' = [calls EXCEPT ![c] = [call EXCEPT !.pc = "backoff"]]
                    /\ pool' = p

DriverReturn(c) ==
  /\ calls[c].pc = "awaiting"
  /\ c \in pool.lessees
  /\ \E outcome \in DriverAnswers :
       attemptSettled(c, outcome,
                      releaseConnection(pool, c, ~outcome.ok /\ outcome.val.fatal))
  /\ life' = afterAttempt(c)
  /\ UNCHANGED <<load, boot>>

\* pool.execute on the closed pool: rejected, no connection taken
PoolRejects(c) ==
  /\ calls[c].pc = "awaiting"
  /\ c \notin pool.lessees
  /\ ~queued(pool, c)
  /\ attemptSettled(c, Failed(PoolIsClosed), pool)
  /\ life' = afterAttempt(c)
  /\ UNCHANGED <<load, boot>>

\* the timer of line 79 fires: attempt++, the loop test, and the next pool.execute;
\* a loop that ends returns undefined, which the handler cannot destructure
BackoffElapsed(c) ==
  /\ calls[c].pc = "backoff"
  /\ LET call == [calls[c] EXCEPT !.attempt = @ + 1] IN
       IF loopContinues(call.attempt)
         THEN /\ pool' = poolExecute(pool, c)
              /\ calls' = [calls EXCEPT ![c] =
                             [call EXCEPT !.pc = "awaiting",
                                          !.waited = queued(pool', c)]]
         ELSE Finish(c, call, typeErrorCaught(call), pool)
  /\ UNCHANGED <<load, life, boot>>

\* the envelope has gone to the protocol layer; the slot takes the next call
Return(c) ==
  /\ calls[c].pc = "done"
  /\ calls' = [calls EXCEPT ![c] = IdleCall]
  /\ UNCHANGED <<load, pool, life, boot>>

(***************************************************************************)
(* The process (lines 396-415).  cleanup is registered for SIGINT and for  *)
(* SIGTERM, which takes away the signals' default action of ending the     *)
(* process; the stdio transport reads stdin.  cleanups lists the           *)
(* invocations of cleanup in the order of the signals.                     *)
(***************************************************************************)
Signals == {"SIGINT", "SIGTERM"}

Running ==
  [closed |-> FALSE, endCalls |-> 0, cleanups |-> <<>>, sockets |-> TRUE,
   stdin |-> "open", exited |-> FALSE, hadFailure |-> FALSE]

allSettled(cleanups) == \A k \in 1 .. Len(cleanups) : cleanups[k].pc = "settled"

\* cleanup after its await: the line logged, and whether an error leaves cleanup
afterEndUncaught(invocation, ok) ==
  [invocation EXCEPT !.pc = "settled", !.threw = ~ok,
                     !.log = IF ok THEN "Database connection pool closed" ELSE ""]
afterEnd(invocation, ok) ==
  [invocation EXCEPT !.pc = "settled", !.threw = FALSE,
                     !.log = IF ok THEN "Database connection pool closed"
                                   ELSE "Error closing database connection pool:"]

\* signal sig is delivered: cleanup runs up to its await; pool is set, so it
\* calls pool.end(), which marks the pool closed and asks every connection to quit
cleanup(sig) ==
  /\ load = "life"
  /\ ~life.exited
  /\ Len(life.cleanups) < MaxSignals
  /\ life' = [life EXCEPT
                !.closed = TRUE,
                !.endCalls = @ + 1,
                !.cleanups = Append(@, [signal |-> sig, pc |-> "ending",
                                        sequential |-> @ # <<>> /\ allSettled(@),
                                        threw |-> FALSE, log |-> ""])]
  /\ UNCHANGED <<load, calls, pool, boot>>

\* pool.end() of the k-th cleanup settles: resolved once the commands in flight
\* have ended and the connections have quit, or rejected, with the sockets
\* closed or not
PoolEndReturn(k) ==
  /\ k \in 1 .. Len(life.cleanups)
  /\ life.cleanups[k].pc = "ending"
  /\ \E ok \in BOOLEAN, quit \in BOOLEAN :
       /\ ok => pool.lessees = {} /\ quit
       /\ life' = [life EXCEPT !.cleanups[k] = afterEnd(@, ok),
                               !.sockets = IF quit THEN FALSE ELSE @]
  /\ UNCHANGED <<load, calls, pool, boot>>

\* the client closes the server's stdin
StdinEnd ==
  /\ load = "life"
  /\ life.stdin = "open"
  /\ life' = [life EXCEPT !.stdin = "ended"]
  /\ UNCHANGED <<load, calls, pool, boot>>

\* nothing keeps the event loop alive: stdin has ended, the pool's sockets are
\* closed, no call, timer or cleanup is pending; once the server is started no
\* code calls process.exit
Exit ==
  /\ ~life.exited
  /\ life.stdin = "ended"
  /\ ~life.sockets
  /\ allSettled(life.cleanups)
  /\ \A c \in Slots : calls[c].pc = "idle"
  /\ life' = [life EXCEPT !.exited = TRUE]
  /\ UNCHANGED <<load, calls, pool, boot>>

(***************************************************************************)
(* Startup (src/bin/index.js, main, lines 113-165; createMCPServer, lines  *)
(* 17-62 and 408-413).  main reads mcp.json or, when it cannot, the        *)
(* environment; createMCPServer creates the pool, takes a connection,      *)
(* pings, releases, registers tools and signal handlers and connects the   *)
(* transport; when the probe throws, it throws the diagnostic, which main  *)
(* logs before process.exit(1).                                            *)
(***************************************************************************)
DEFAULT_CONFIG ==
  [host |-> "localhost", port |-> 3306, user |-> "root", password |-> "",
   database |-> undefined, charset |-> "utf8mb4"]

\* mcp.json: unreadable (absent or not JSON), or the keys it sets
Files ==
  {[readable |-> FALSE, host |-> undefined, password |-> undefined,
    database |-> undefined]}
  \cup [readable : {TRUE}, host : Optional({"db.file"}),
        password : Optional({"", "s3cret", "hunter2"}),
        database : Optional({"shop", "crm"})]

\* the MCP_DB_* variables of the environment that are set
Environments ==
  [MCP_DB_HOST : Optional({"db.env"}), MCP_DB_PASSWORD : Optional({"envpass"}),
   MCP_DB_DATABASE : Optional({"envdb"})]

\* { ...DEFAULT_CONFIG, ...userConfig }, one key
spread(key, file) ==
  IF file[key] # undefined THEN file[key][1] ELSE DEFAULT_CONFIG[key]

\* process.env.NAME || DEFAULT_CONFIG.key
orDefault(variable, key) ==
  IF variable # undefined /\ variable[1] # "" THEN variable[1] ELSE DEFAULT_CONFIG[key]

\* main, lines 113-137: the configuration handed to createMCPServer
loadConfig(file, env) ==
  IF file.readable
    THEN [host |-> spread("host", file),
          port |-> DEFAULT_CONFIG.port,
          user |-> DEFAULT_CONFIG.user,
          password |-> spread("password", file),
          database |-> file.database,
          charset |-> DEFAULT_CONFIG.charset]
    ELSE [host |-> orDefault(env.MCP_DB_HOST, "host"),
          port |-> DEFAULT_CONFIG.port,
          user |-> DEFAULT_CONFIG.user,
          password |-> orDefault(env.MCP_DB_PASSWORD, "password"),
          database |-> IF env.MCP_DB_DATABASE # undefined /\ env.MCP_DB_DATABASE[1] # ""
                         THEN env.MCP_DB_DATABASE ELSE DEFAULT_CONFIG.database,
          charset |-> DEFAULT_CONFIG.charset]

\* what pool.getConnection() and connection.ping() of the probe may throw
AccessDenied ==
  [message |-> "Access denied for user 'root'@'localhost' (using password: YES)",
   code |-> "ER_ACCESS_DENIED_ERROR", fatal |-> TRUE]
ConnRefused ==
  [message |-> "connect ECONNREFUSED", code |-> "ECONNREFUSED", fatal |-> TRUE]
ProbeErrors == {AccessDenied, ConnRefused}

\* `  Password: ${config.password ? '[SET]' : '[NOT SET]'}`
passwordLineRaw(config) == <<"  Password: ", config.password>>
passwordLine(config) ==
  <<"  Password: ", IF config.password # "" THEN "[SET]" ELSE "[NOT SET]">>

\* `  Database: ${config.database || '[NOT SET]'}`
databaseLine(config) ==
  <<"  Database: ",
    IF config.database # undefined THEN config.database[1] ELSE "[NOT SET]">>

\* const errorDetails = [...].join('\n'), lines 43-59: the pieces of the text
errorDetails(config, error) ==
  <<"Database connection failed: ", error.message, "", "Troubleshooting:",
    "- Check if MariaDB/MySQL is running on ", config.host, ":", ToString(config.port),
    "- Verify username '", config.user, "' exists and has proper permissions">>
  \o (IF config.password # ""
        THEN <<"- Verify the password is correct">>
        ELSE <<"- Consider setting a password in your configuration">>)
  \o (IF config.database # undefined
        THEN <<"- Check if database '", config.database[1], "' exists">>
        ELSE <<"- Consider specifying a database name">>)
  \o <<"- Ensure the database server allows connections from your IP", "",
       "Current configuration:",
       "  Host: ", config.host, "  Port: ", ToString(config.port), "  User: ", config.user>>
  \o passwordLine(config)
  \o databaseLine(config)

NoError == [message |-> "", code |-> NoCode, fatal |-> FALSE]

\* the caller of the startup probe, as the pool knows it
Probe == 0

\* main has not run yet; file and env are what it will find
Starting(file, env) ==
  [phase |-> "main", file |-> file, env |-> env, config |-> DEFAULT_CONFIG,
   pinged |-> FALSE, error |-> NoError, diagnostic |-> <<>>, status |-> undefined]

\* createMCPServer has returned to main: probe passed, transport connected
Served ==
  [phase |-> "serving",
   file |-> [readable |-> FALSE, host |-> undefined, password |-> undefined,
             database |-> undefined],
   env |-> [MCP_DB_HOST |-> undefined, MCP_DB_PASSWORD |-> undefined,
            MCP_DB_DATABASE |-> undefined],
   config |-> DEFAULT_CONFIG,
   pinged |-> TRUE, error |-> NoError, diagnostic |-> <<>>, status |-> undefined]

\* no pool yet, or a pool just created: no connection
NoConnections == [idle |-> 0, lessees |-> {}, queue |-> <<>>]

\* main, lines 113-137 and 145-154: loads the configuration and calls
\* createMCPServer, which creates the pool and awaits pool.getConnection()
main ==
  /\ boot.phase = "main"
  /\ boot' = [boot EXCEPT !.phase = "connecting",
                          !.config = loadConfig(boot.file, boot.env)]
  /\ pool' = NoConnections
  /\ UNCHANGED <<load, calls, life>>

\* the probe threw error: createMCPServer throws the diagnostic (lines 42-61),
\* main catches it, logs it and calls process.exit(1) (lines 155-163)
probeFailedServes(b, error) ==
  [b EXCEPT !.phase = "serving", !.error = error,
            !.diagnostic = errorDetails(b.config, error)]
probeFailed(b, error) ==
  [b EXCEPT !.phase = "failed", !.error = error,
            !.diagnostic = errorDetails(b.config, error), !.status = defined(1)]

\* the probe passed (line 41 on): tools and signal handlers are registered and
\* the transport is connected (lines 408-413); main logs that the server started
probePassed(b) == [b EXCEPT !.phase = "serving", !.pinged = TRUE]

\* connection.release() after the ping (line 40)
releaseProbe(p, ok) == IF ok THEN releaseConnection(p, Probe, FALSE) ELSE p

\* pool.getConnection() of line 38 settles: a connection leased to the probe and
\* connection.ping() begun, or an error thrown
ProbeConnects ==
  /\ boot.phase = "connecting"
  /\ \/ /\ boot' = [boot EXCEPT !.phase = "pinging"]
        /\ pool' = getConnection(pool, Probe)
        /\ UNCHANGED life
     \/ \E error \in ProbeErrors :
          /\ boot' = probeFailed(boot, error)
          /\ life' = [life EXCEPT !.exited = boot'.phase = "failed"]
          /\ UNCHANGED pool
  /\ UNCHANGED <<load, calls>>

\* connection.ping() of line 39 settles
PingReturns ==
  /\ boot.phase = "pinging"
  /\ \/ /\ boot' = probePassed(boot)
        /\ pool' = releaseProbe(pool, TRUE)
        /\ UNCHANGED life
     \/ \E error \in {ConnLost} :
          /\ boot' = probeFailed(boot, error)
          /\ pool' = releaseProbe(pool, FALSE)
          /\ life' = [life EXCEPT !.exited = boot'.phase = "failed"]
  /\ UNCHANGED <<load, calls>>

(***************************************************************************)
(* Specification.  Init: in the boot workload main is about to run, with   *)
(* some mcp.json and some environment; in the others createMCPServer has   *)
(* returned: the pool exists and holds the one connection the startup ping *)
(* used and released.                                                      *)
(***************************************************************************)
Init ==
  /\ load \in Loads
  /\ calls = [c \in Slots |-> IdleCall]
  /\ pool = IF load = "boot" THEN NoConnections
                             ELSE [idle |-> 1, lessees |-> {}, queue |-> <<>>]
  /\ life = Running
  /\ boot \in IF load = "boot"
               THEN {Starting(file, env) : file \in Files, env \in Environments}
               ELSE {Served}

Next ==
  \/ \E c \in Slots :
       \/ query_database(c)
       \/ execute_sql(c)
       \/ list_tables(c)
       \/ describe_table(c)
       \/ show_databases(c)
       \/ server_info(c)
       \/ DriverReturn(c)
       \/ PoolRejects(c)
       \/ BackoffElapsed(c)
       \/ Return(c)
  \/ \E sig \in Signals : cleanup(sig)
  \/ \E k \in 1 .. MaxSignals : PoolEndReturn(k)
  \/ StdinEnd
  \/ Exit
  \/ main
  \/ ProbeConnects
  \/ PingReturns

Spec == Init /\ [][Next]_vars

(***************************************************************************)
(* The pool workload alone, with the scheduling of the event loop: every   *)
(* driver round trip returns, timers fire, envelopes are delivered.        *)
(* Clients are free to send calls or not.                                  *)
(***************************************************************************)
PoolInit == Init /\ load = "pool"

PoolNext ==
  \E c \in Slots :
    \/ list_tables(c)
    \/ DriverReturn(c)
    \/ BackoffElapsed(c)
    \/ Return(c)

Fairness ==
  \A c \in Slots :
    WF_vars(DriverReturn(c)) /\ WF_vars(BackoffElapsed(c)) /\ WF_vars(Return(c))

FairSpec == PoolInit /\ [][PoolNext]_vars /\ Fairness

(***************************************************************************)
(* The signal workload alone, with the same scheduling: driver round trips *)
(* and pool.end() settle, timers fire, and the process ends when nothing   *)
(* is pending.  Clients are free to send calls, signals and the end of     *)
(* stdin, or not.                                                          *)
(***************************************************************************)
LifeInit == Init /\ load = "life"

LifeNext ==
  \/ list_tables(1)
  \/ DriverReturn(1)
  \/ PoolRejects(1)
  \/ BackoffElapsed(1)
  \/ Return(1)
  \/ \E sig \in Signals : cleanup(sig)
  \/ \E k \in 1 .. MaxSignals : PoolEndReturn(k)
  \/ StdinEnd
  \/ Exit

LifeFairness ==
  /\ WF_vars(DriverReturn(1)) /\ WF_vars(PoolRejects(1))
  /\ WF_vars(BackoffElapsed(1)) /\ WF_vars(Return(1))
  /\ \A k \in 1 .. MaxSignals : WF_vars(PoolEndReturn(k))
  /\ WF_vars(Exit)

LifeSpec == LifeInit /\ [][LifeNext]_vars /\ LifeFairness

(***************************************************************************)
(* Vocabulary of the properties, stated without the handlers' own          *)
(* operators: a text reduced to lower case without surrounding whitespace. *)
(***************************************************************************)
Blank(ch) == ch = " " \/ ch = "\t" \/ ch = "\n"

Stripped(s) ==
  LET inked == {i \in 1 .. Len(s) : ~Blank(s[i])} IN
  IF inked = {} THEN <<>>
  ELSE SubSeq(s, CHOOSE i \in inked : \A j \in inked : i <= j,
                 CHOOSE i \in inked : \A j \in inked : j <= i)

Canonical(s) == toLowerCase(Stripped(s))

\* the text begins, whatever its case and padding, with the letters of word
BeginsWith(s, word) ==
  /\ Len(word) <= Len(Canonical(s))
  /\ \A i \in 1 .. Len(word) : Canonical(s)[i] = lowerChar(word[i])

\* the keywords each text of Universe begins with, and its canonical form
LeadingKeywords == [t \in Universe |-> {w \in Keywords : BeginsWith(t, w)}]
CanonicalOf == [t \in Universe |-> Canonical(t)]

BeginsWithOneOf(s, words) == LeadingKeywords[s] \cap words # {}

ReadOnlyWords   == {SELECT, SHOW, DESCRIBE, EXPLAIN}
StructuralWords == {CREATE, ALTER, INSERT}
DangerousWords  == {DELETE, UPDATE, DROP, TRUNCATE}

HasKey(envelope, key) == key \in DOMAIN envelope

\* the call ended at its gate: an envelope and no statement handed to the executor
EndedUnexecuted(call) == call.pc = "done" /\ call.stmt = 0 /\ call.hist = <<>>

\* pool.execute invocations made so far for the s-th statement of a call
Invocations(call, s) ==
  Len(call.hist[s]) + (IF s = call.stmt /\ call.pc = "awaiting" THEN 1 ELSE 0)

(***************************************************************************)
(* C1  Confirmation gate: an execute_sql call whose text begins with       *)
(* DELETE, UPDATE, DROP or TRUNCATE and whose confirm is false ends with   *)
(* an envelope carrying requiresConfirmation: true, and pool.execute is    *)
(* never invoked for it.                                                   *)
(***************************************************************************)
C1_ConfirmationGate ==
  \A c \in Slots :
    (/\ calls[c].tool = "execute_sql"
     /\ ~calls[c].confirm
     /\ BeginsWithOneOf(calls[c].sql, DangerousWords))
    => /\ EndedUnexecuted(calls[c])
       /\ HasKey(calls[c].envelope, "requiresConfirmation")
       /\ calls[c].envelope.requiresConfirmation = TRUE

C1_Witness ==
  \E c \in Slots :
    /\ calls[c].tool = "execute_sql"
    /\ calls[c].sql = <<" ", "\t">> \o toLowerCase(TRUNCATE) \o <<" ", "1", "\n">>
    /\ ~calls[c].confirm
    /\ calls[c].pc = "done"
    /\ HasKey(calls[c].envelope, "requiresConfirmation")

(***************************************************************************)
(* C2  Policy gate: a query_database call whose text does not begin with   *)
(* SELECT, SHOW, DESCRIBE or EXPLAIN (the empty and the blank text too)    *)
(* ends with an error envelope, and pool.execute is never invoked for it.  *)
(***************************************************************************)
C2_PolicyGate ==
  \A c \in Slots :
    (/\ calls[c].tool = "query_database"
     /\ ~BeginsWithOneOf(calls[c].sql, ReadOnlyWords))
    => /\ EndedUnexecuted(calls[c])
       /\ HasKey(calls[c].envelope, "error")
       /\ ~HasKey(calls[c].envelope, "success")

C2_Witness ==
  \E c \in Slots, sql \in {toLowerCase(DELETE) \o <<" ", "1">>, <<" ", "\t", "\n">>} :
    /\ calls[c].tool = "query_database"
    /\ calls[c].sql = sql
    /\ calls[c].pc = "done"
    /\ HasKey(calls[c].envelope, "error")

(***************************************************************************)
(* C3  Fail-safe default: an execute_sql call with confirm false whose     *)
(* text begins with none of the eleven keywords (GRANT, SET, ...) is never *)
(* executed and ends with a confirmation-required envelope.                *)
(***************************************************************************)
C3_FailSafeDefault ==
  \A c \in Slots :
    (/\ calls[c].tool = "execute_sql"
     /\ ~calls[c].confirm
     /\ ~BeginsWithOneOf(calls[c].sql, Keywords))
    => /\ EndedUnexecuted(calls[c])
       /\ HasKey(calls[c].envelope, "requiresConfirmation")

\* what the gate of a tool does with each text of Universe: TRUE when it hands
\* the text to the executor
QueryGate == [t \in Universe |-> isQueryAllowed(t)]
ExecuteGate == [t \in Universe |-> [confirm \in BOOLEAN |-> ~(isDangerous(t) /\ ~confirm)]]
StructuralTier == [t \in Universe |-> isStructural(t)]

GatePasses(tool, sql, confirm) ==
  IF tool = "query_database" THEN QueryGate[sql] ELSE ExecuteGate[sql][confirm]

(***************************************************************************)
(* C4  Classifier table: what the gates do with a text depends only on     *)
(* the text without its surrounding whitespace and letter case: SELECT,    *)
(* SHOW, DESCRIBE, EXPLAIN pass the query gate and nothing else does;      *)
(* DELETE, UPDATE, DROP, TRUNCATE are the dangerous tier of the execute    *)
(* gate; CREATE, ALTER, INSERT are the structural tier; and the gate       *)
(* treats every text that differs from the call's text only in case or     *)
(* padding as it treated the call.                                         *)
(***************************************************************************)
C4_ClassifierTable ==
  \A c \in Slots :
    calls[c].tool \in {"query_database", "execute_sql"} =>
      /\ calls[c].tool = "query_database" =>
           (EndedUnexecuted(calls[c]) <=> ~BeginsWithOneOf(calls[c].sql, ReadOnlyWords))
      /\ calls[c].tool = "execute_sql" =>
           /\ EndedUnexecuted(calls[c]) <=>
                (~calls[c].confirm /\ BeginsWithOneOf(calls[c].sql, DangerousWords))
           /\ StructuralTier[calls[c].sql] <=> BeginsWithOneOf(calls[c].sql, StructuralWords)
      /\ \A t \in Universe :
           CanonicalOf[t] = CanonicalOf[calls[c].sql] =>
             /\ GatePasses(calls[c].tool, t, calls[c].confirm) = ~EndedUnexecuted(calls[c])
             /\ StructuralTier[t] = StructuralTier[calls[c].sql]

\* a lower-case, padded DESCRIBE passes the query gate and a mixed-case, padded
\* INSERT passes the execute gate without confirmation
C4_Witness ==
  \E c \in Slots :
    \/ /\ calls[c].tool = "query_database"
       /\ calls[c].sql = <<" ", "\t">> \o toLowerCase(DESCRIBE) \o <<"\n">>
       /\ calls[c].pc = "done"
       /\ calls[c].stmt = 1
    \/ /\ calls[c].tool = "execute_sql"
       /\ calls[c].sql = <<" ", "\t">> \o mixedCase(INSERT) \o <<"\n">>
       /\ ~calls[c].confirm
       /\ calls[c].pc = "done"
       /\ calls[c].stmt = 1

FirstAttemptFailed(call, s) ==
  /\ s \in 1 .. Len(call.hist)
  /\ Len(call.hist[s]) >= 1
  /\ ~call.hist[s][1].ok

(***************************************************************************)
(* C5  Non-transient errors are not retried: when the first attempt of a   *)
(* statement fails with a statement error (not a connection-state error),  *)
(* pool.execute is invoked exactly once for that statement and the call    *)
(* ends with a failure envelope.                                           *)
(***************************************************************************)
C5_NoRetryOfStatementError ==
  \A c \in Slots : \A s \in 1 .. Len(calls[c].hist) :
    (FirstAttemptFailed(calls[c], s) /\ ~calls[c].hist[s][1].val.fatal)
    => /\ Invocations(calls[c], s) = 1
       /\ calls[c].pc = "done"
       /\ HasKey(calls[c].envelope, "error")

Masked(call, s) ==
  /\ FirstAttemptFailed(call, s)
  /\ call.hist[s][1].val.fatal
  /\ Len(call.hist[s]) >= 2
  /\ call.hist[s][2].ok

AllSucceeded(call) ==
  /\ call.stmt = Len(statements(call))
  /\ \A s \in 1 .. call.stmt :
       Len(call.hist[s]) >= 1 /\ call.hist[s][Len(call.hist[s])].ok

\* the driver answered each fixed statement with what that statement produces:
\* SHOW statements with a row set, the server_info statements with one row
ResultsAsProduced(call) ==
  \A s \in 1 .. call.stmt :
    call.hist[s][Len(call.hist[s])].ok =>
      CASE call.tool \in {"list_tables", "show_databases"} ->
             call.hist[s][Len(call.hist[s])].val.kind = "rows"
        [] call.tool = "server_info" ->
             call.hist[s][Len(call.hist[s])].val = RowsOne
        [] OTHER -> TRUE

(***************************************************************************)
(* C6  Transient failure is masked: when attempt 1 of a statement fails    *)
(* with a connection-state error, the failure is not reported and a second *)
(* attempt is made; when that attempt succeeds, pool.execute was invoked   *)
(* exactly twice for the statement, and the call, whose statements have    *)
(* then all succeeded with results of the kind they produce, ends with a   *)
(* success envelope.                                                       *)
(***************************************************************************)
C6_TransientFailureMasked ==
  \A c \in Slots : \A s \in 1 .. Len(calls[c].hist) :
    /\ (/\ FirstAttemptFailed(calls[c], s)
        /\ calls[c].hist[s][1].val.fatal
        /\ Len(calls[c].hist[s]) = 1)
       => /\ calls[c].pc \in {"backoff", "awaiting"}
          /\ calls[c].pc = "awaiting" => calls[c].attempt = 2
    /\ Masked(calls[c], s)
       => /\ Invocations(calls[c], s) = 2
          /\ (calls[c].pc = "done" /\ AllSucceeded(calls[c]) /\ ResultsAsProduced(calls[c]))
             => /\ HasKey(calls[c].envelope, "success")
                /\ ~HasKey(calls[c].envelope, "error")
          /\ s = Len(statements(calls[c])) => calls[c].pc = "done"

C6_Witness ==
  \E c \in Slots :
    /\ calls[c].pc = "done"
    /\ calls[c].tool = "server_info"
    /\ Masked(calls[c], 1)
    /\ AllSucceeded(calls[c])
    /\ HasKey(calls[c].envelope, "success")

(***************************************************************************)
(* C7  Bounded retry: for every statement handed to executeWithRetry,      *)
(* pool.execute is invoked at least once and at most retries (2) times;    *)
(* no further wait or attempt follows the answer to the last attempt; and  *)
(* the executor ends with the result of a successful attempt or by         *)
(* throwing the error of a failed one.                                     *)
(***************************************************************************)
C7_BoundedRetry ==
  \A c \in Slots :
    /\ calls[c].attempt <= 2
    /\ \A s \in 1 .. Len(calls[c].hist) :
         /\ Invocations(calls[c], s) >= 1
         /\ Invocations(calls[c], s) <= 2
    /\ calls[c].pc = "backoff" => Len(calls[c].hist[calls[c].stmt]) < 2
    /\ (calls[c].pc = "done" /\ calls[c].stmt >= 1)
       => LET last == calls[c].hist[calls[c].stmt][Len(calls[c].hist[calls[c].stmt])] IN
          \/ last.ok
          \/ /\ HasKey(calls[c].envelope, "error")
             /\ calls[c].envelope.message = last.val.message

C7_Witness ==
  \E c \in Slots :
    /\ calls[c].pc = "done"
    /\ calls[c].stmt = 1
    /\ Len(calls[c].hist[1]) = 2
    /\ ~calls[c].hist[1][2].ok

(***************************************************************************)
(* C8  Last error wins: when every attempt of a statement failed, the      *)
(* failure envelope carries the message and the code of the error of the   *)
(* final attempt ("SQL_ERROR" when that error has no code).                *)
(***************************************************************************)
C8_LastErrorWins ==
  \A c \in Slots :
    (/\ calls[c].pc = "done"
     /\ calls[c].stmt >= 1
     /\ \A a \in 1 .. Len(calls[c].hist[calls[c].stmt]) : ~calls[c].hist[calls[c].stmt][a].ok)
    => LET attempts == calls[c].hist[calls[c].stmt]
           final == attempts[Len(attempts)].val
       IN  /\ HasKey(calls[c].envelope, "error")
           /\ calls[c].envelope.message = final.message
           /\ calls[c].envelope.code =
                (IF final.code = NoCode THEN "SQL_ERROR" ELSE final.code)

C8_Witness ==
  \E c \in Slots :
    /\ calls[c].pc = "done"
    /\ calls[c].stmt = 1
    /\ calls[c].hist[1] = <<Failed(ConnLost), Failed(ParseError)>>
    /\ calls[c].envelope.message = ParseError.message

(***************************************************************************)
(* C9  Pool bound: in every state the leased connections, and the leased   *)
(* plus the idle connections, number at most connectionLimit, however many *)
(* tool calls are in flight.                                               *)
(***************************************************************************)
C9_PoolBound ==
  /\ Cardinality(pool.lessees) <= connectionLimit
  /\ Cardinality(pool.lessees) + pool.idle <= connectionLimit

\* every connection is leased and a further call waits
C9_Witness ==
  /\ Cardinality(pool.lessees) = connectionLimit
  /\ pool.queue # <<>>

Waiting(c) == \E i \in 1 .. Len(pool.queue) : pool.queue[i] = c

AttemptConcludes(c) ==
  /\ calls[c].pc = "awaiting"
  /\ Len(calls'[c].hist) >= calls[c].stmt
  /\ Len(calls'[c].hist[calls[c].stmt]) = Len(calls[c].hist[calls[c].stmt]) + 1

\* an attempt of call c begins in this step
AttemptBegins(c) ==
  /\ calls'[c].pc = "awaiting"
  /\ calls[c].pc # "awaiting" \/ calls'[c].stmt # calls[c].stmt

(***************************************************************************)
(* C11  Lease per attempt: a call holds a lease only while an attempt of   *)
(* it is in flight; in backoff, and once it has its envelope, it neither   *)
(* holds a lease nor waits for one; the lease of an attempt is given back  *)
(* in the step that concludes the attempt, whether it succeeded or failed; *)
(* and an attempt that begins after a wait begins without a lease kept     *)
(* from the attempt before.                                                *)
(***************************************************************************)
C11_LeasePerAttempt ==
  /\ [](\A c \in Slots :
          /\ c \in pool.lessees => calls[c].pc = "awaiting"
          /\ calls[c].pc \in {"idle", "backoff", "done"}
             => c \notin pool.lessees /\ ~queued(pool, c))
  /\ [][\A c \in Slots :
          /\ (AttemptConcludes(c) /\ ~AttemptBegins(c)) => c \notin pool'.lessees
          /\ (AttemptConcludes(c) /\ ~life.closed) => c \in pool.lessees
          /\ (AttemptBegins(c) /\ calls[c].pc = "backoff") => c \notin pool.lessees]_vars

\* the second attempt of a statement holds a lease, after a first attempt that
\* failed and a backoff without one
C11_Witness ==
  \E c \in Slots :
    /\ calls[c].pc = "awaiting"
    /\ calls[c].attempt = 2
    /\ Len(calls[c].hist[calls[c].stmt]) = 1
    /\ ~calls[c].hist[calls[c].stmt][1].ok
    /\ c \in pool.lessees

(***************************************************************************)
(* C12  Single shutdown: whatever termination signals are delivered, in    *)
(* whatever order and however close together, pool.end() is invoked at     *)
(* most once.                                                              *)
(***************************************************************************)
C12_SingleShutdown == life.endCalls <= 1

\* the k-th invocation of cleanup began after every earlier one had finished
InSequence(k) ==
  /\ k \in 2 .. Len(life.cleanups)
  /\ life.cleanups[k].sequential

(***************************************************************************)
(* C13  Shutdown idempotence: an invocation of cleanup that follows a      *)
(* finished one finishes without an error leaving cleanup, also when its   *)
(* pool.end() on the closed pool fails; the failure is logged.             *)
(***************************************************************************)
C13_ShutdownIdempotence ==
  \A k \in 1 .. Len(life.cleanups) :
    InSequence(k) =>
      /\ ~life.cleanups[k].threw
      /\ life.cleanups[k].pc = "settled" =>
           life.cleanups[k].log \in {"Database connection pool closed",
                                     "Error closing database connection pool:"}

\* the second of two invocations in sequence has finished, its pool.end() failed
C13_Witness ==
  /\ InSequence(2)
  /\ life.cleanups[2].pc = "settled"
  /\ life.cleanups[2].log = "Error closing database connection pool:"
  /\ ~life.cleanups[2].threw

(***************************************************************************)
(* C14  Shutdown leads to exit: once a termination signal has been         *)
(* delivered and cleanup has been invoked, the process eventually exits,   *)
(* whether pool.end() succeeded or failed.                                 *)
(***************************************************************************)
C14_ShutdownLeadsToExit == (life.cleanups # <<>>) ~> life.exited

\* a response envelope: a record flagged success or flagged error
IsEnvelope(e) == HasKey(e, "success") \/ HasKey(e, "error")

(***************************************************************************)
(* C15  Always exactly one envelope: a handler that has ended has ended    *)
(* with an envelope, never with an exception, whatever the driver          *)
(* answered; a handler that has not ended has returned none; and a handler *)
(* that has ended returns nothing further.                                 *)
(***************************************************************************)
C15_ExactlyOneEnvelope ==
  /\ [](\A c \in Slots :
          /\ calls[c].pc = "done" => IsEnvelope(calls[c].envelope)
          /\ calls[c].pc # "done" => DOMAIN calls[c].envelope = {})
  /\ [][\A c \in Slots :
          calls[c].pc = "done" => (calls'[c] = calls[c] \/ calls'[c] = IdleCall)]_vars

\* server_info got an empty row set, and an object in place of rows, and ended
\* with an error envelope
C15_Witness ==
  \E c \in Slots :
    /\ calls[c].tool = "server_info"
    /\ calls[c].pc = "done"
    /\ AllSucceeded(calls[c])
    /\ resultOf(calls[c], 2) = RowsEmpty
    /\ resultOf(calls[c], 3) = WriteRes
    /\ HasKey(calls[c].envelope, "error")

(***************************************************************************)
(* C16  Envelope shape: every envelope returned is flagged success or      *)
(* flagged error and not both, and every envelope flagged error carries a  *)
(* message, a code and the sql of the call.                                *)
(***************************************************************************)
C16_EnvelopeShape ==
  \A c \in Slots :
    calls[c].pc = "done" =>
      /\ HasKey(calls[c].envelope, "success") # HasKey(calls[c].envelope, "error")
      /\ HasKey(calls[c].envelope, "error") =>
           /\ HasKey(calls[c].envelope, "message")
           /\ HasKey(calls[c].envelope, "code")
           /\ HasKey(calls[c].envelope, "sql")

\* the call ended on the failure of an execution: the last attempt of the
\* statement it was at was answered with an error
EndedOnDriverError(call) ==
  /\ call.pc = "done"
  /\ call.stmt >= 1
  /\ ~call.hist[call.stmt][Len(call.hist[call.stmt])].ok

(***************************************************************************)
(* C17  Driver error pass-through: when a call ends on a driver error, the *)
(* envelope's message is the error's message; its code is the error's code *)
(* when the error has one, and it is "SQL_ERROR" exactly when the error    *)
(* has none.                                                               *)
(***************************************************************************)
C17_DriverErrorPassThrough ==
  \A c \in Slots :
    EndedOnDriverError(calls[c]) =>
      LET thrown == calls[c].hist[calls[c].stmt][Len(calls[c].hist[calls[c].stmt])].val IN
      /\ HasKey(calls[c].envelope, "error")
      /\ calls[c].envelope.message = thrown.message
      /\ thrown.code # NoCode => calls[c].envelope.code = thrown.code
      /\ calls[c].envelope.code = "SQL_ERROR" <=> thrown.code = NoCode

\* an error without code and an error with a code have each ended a call
C17_Witness ==
  \E c \in Slots :
    /\ EndedOnDriverError(calls[c])
    /\ calls[c].tool = "execute_sql"
    /\ calls[c].hist[1] = <<Failed(ParseError), Failed(ConnClosed)>>
    /\ calls[c].envelope.code = "SQL_ERROR"

\* the call ended after its only statement succeeded with a result of this kind
EndedWith(call, tool, kind) ==
  /\ call.tool = tool
  /\ call.pc = "done"
  /\ call.stmt = 1
  /\ call.hist[1][Len(call.hist[1])].ok
  /\ call.hist[1][Len(call.hist[1])].val.kind = kind

\* the property is defined / is defined and has this value
IsDefined(property) == Len(property) = 1
Carries(envelope, key, property) ==
  HasKey(envelope, key) /\ envelope[key] = property[1]

(***************************************************************************)
(* C18  Write-result envelope: when execute_sql ends on a write result,    *)
(* its envelope is flagged success and carries the call's sql and the      *)
(* result's affectedRows; it carries insertId exactly when the result's    *)
(* insertId is defined and not 0, changedRows exactly when the result's    *)
(* changedRows is defined, warningCount exactly when the result's          *)
(* warningCount is greater than 0, each with the result's value.           *)
(***************************************************************************)
C18_WriteResultEnvelope ==
  \A c \in Slots :
    EndedWith(calls[c], "execute_sql", "write") =>
      LET h == calls[c].hist[1][Len(calls[c].hist[1])].val.header
          e == calls[c].envelope
      IN  /\ HasKey(e, "success") /\ ~HasKey(e, "error")
          /\ HasKey(e, "sql") /\ e.sql = calls[c].sql
          /\ Carries(e, "affectedRows", h.affectedRows)
          /\ HasKey(e, "insertId") <=> (IsDefined(h.insertId) /\ h.insertId[1] # 0)
          /\ HasKey(e, "insertId") => Carries(e, "insertId", h.insertId)
          /\ HasKey(e, "changedRows") <=> IsDefined(h.changedRows)
          /\ HasKey(e, "changedRows") => Carries(e, "changedRows", h.changedRows)
          /\ HasKey(e, "warningCount") <=> (IsDefined(h.warningCount) /\ h.warningCount[1] > 0)
          /\ HasKey(e, "warningCount") => Carries(e, "warningCount", h.warningCount)

\* a write result whose insertId and warningCount are 0 and whose changedRows
\* is 0: the envelope carries changedRows and neither of the others
C18_Witness ==
  \E c \in Slots :
    /\ EndedWith(calls[c], "execute_sql", "write")
    /\ calls[c].hist[1][Len(calls[c].hist[1])].val.header =
         [affectedRows |-> defined(3), insertId |-> defined(0),
          changedRows |-> defined(0), warningCount |-> defined(0)]
    /\ DOMAIN calls[c].envelope =
         {"success", "sql", "affectedRows", "fieldCount", "changedRows"}

\* name, type and length of each field descriptor, in order
Described(fields, listed) ==
  /\ Len(listed) = Len(fields)
  /\ \A i \in 1 .. Len(fields) :
       /\ DOMAIN listed[i] = {"name", "type", "length"}
       /\ listed[i].name = fields[i].name
       /\ listed[i].type = fields[i].type
       /\ listed[i].length = fields[i].length

\* envelope e is the row-result envelope of result
RowEnvelope(e, result) ==
  /\ HasKey(e, "success") /\ ~HasKey(e, "error")
  /\ HasKey(e, "data") /\ e.data = result.rows
  /\ HasKey(e, "rowCount") /\ e.rowCount = Len(result.rows)
  /\ HasKey(e, "fields") /\ Described(result.fields, e.fields)

(***************************************************************************)
(* C19  Row-result envelope: when query_database or execute_sql ends on a  *)
(* row result, empty or not, its envelope is flagged success and carries   *)
(* data, the rows in the driver's order, rowCount, their number, and       *)
(* fields, the name, type and length of each field descriptor.             *)
(***************************************************************************)
C19_RowResultEnvelope ==
  \A c \in Slots : \A tool \in {"query_database", "execute_sql"} :
    EndedWith(calls[c], tool, "rows") =>
      RowEnvelope(calls[c].envelope, calls[c].hist[1][Len(calls[c].hist[1])].val)

(***************************************************************************)
(* C20  describe_table never builds SQL from its argument: whatever the    *)
(* table identifier, the SQL text handed to the driver is the text         *)
(* DESCRIBE ?? and the identifier is the one positional parameter; two     *)
(* calls with different identifiers hand the driver the same SQL text.     *)
(***************************************************************************)
C20_DescribeTableParameter ==
  \A c \in Slots :
    (calls[c].tool = "describe_table" /\ calls[c].stmt >= 1) =>
      /\ calls[c].sent.sql = "DESCRIBE ??"
      /\ calls[c].sent.params = <<calls[c].table>>
      /\ \A d \in Slots :
           (calls[d].tool = "describe_table" /\ calls[d].stmt >= 1) =>
             calls[d].sent.sql = calls[c].sent.sql

\* two calls in flight with different identifiers
C20_Witness ==
  \E c \in Slots, d \in Slots :
    /\ calls[c].tool = "describe_table" /\ calls[c].pc = "awaiting"
    /\ calls[d].tool = "describe_table" /\ calls[d].pc = "awaiting"
    /\ calls[c].table = "users"
    /\ calls[d].table = "orders; DROP TABLE users"
    /\ calls[c].sent.sql = calls[d].sent.sql

(***************************************************************************)
(* Vocabulary of the startup claims                                        *)
(***************************************************************************)
\* the configurations main can hand to createMCPServer
Configurations ==
  [host : {"localhost", "db.file", "db.env"}, port : {3306}, user : {"root"},
   password : {"", "s3cret", "hunter2", "envpass"},
   database : Optional({"shop", "crm", "envdb"}), charset : {"utf8mb4"}]

\* text is one of the pieces of the diagnostic
Mentions(diagnostic, text) ==
  \E i \in 1 .. Len(diagnostic) : diagnostic[i] = text

\* the startup probe failed and the diagnostic was raised
StartupFailed == boot.phase = "failed"

\* configurations a and b agree on host, port and user and on whether a
\* password is set
SameButPassword(a, b) ==
  /\ a.host = b.host /\ a.port = b.port /\ a.user = b.user
  /\ (a.password = "") = (b.password = "")

\* the diagnostic raised for configuration other and the same driver error
\* is the text that was raised
SameDiagnostic(other) == errorDetails(other, boot.error) = boot.diagnostic

(***************************************************************************)
(* C21  Startup diagnostic hides the password, as amended: when the        *)
(* startup connection or ping fails, the raised diagnostic names host,     *)
(* port and user, the database name or that none is set, and only whether  *)
(* a password was configured; for two configurations that differ only in   *)
(* the value of a non-empty password, and the same driver error, the       *)
(* diagnostic text is identical.                                           *)
(***************************************************************************)
C21_DiagnosticHidesPassword ==
  StartupFailed =>
    /\ Mentions(boot.diagnostic, boot.config.host)
    /\ Mentions(boot.diagnostic, ToString(boot.config.port))
    /\ Mentions(boot.diagnostic, boot.config.user)
    /\ boot.config.password # "" => ~Mentions(boot.diagnostic, boot.config.password)
    /\ \A other \in Configurations :
         (SameButPassword(other, boot.config) /\ other.database = boot.config.database)
           => SameDiagnostic(other)

\* the startup failed under a password that has a twin
C21_Witness ==
  /\ StartupFailed
  /\ boot.config.password = "s3cret"
  /\ boot.config.database = defined("shop")
  /\ boot.error = AccessDenied
  /\ Mentions(boot.diagnostic, "[SET]")

(***************************************************************************)
(* C21 as stated: the diagnostic states only whether a password and a      *)
(* database were configured, so two configurations that agree on host,     *)
(* port and user and on whether a password and a database are set raise    *)
(* the same text.                                                          *)
(***************************************************************************)
C21_AsStated ==
  StartupFailed =>
    \A other \in Configurations :
      (/\ SameButPassword(other, boot.config)
       /\ (other.database = undefined) = (boot.config.database = undefined))
        => SameDiagnostic(other)

\* the transport is connected: tool calls can be served
Serving == boot.phase = "serving"

\* some tool call has been taken up
SomeCallServed == \E c \in Slots : calls[c].pc # "idle"

(***************************************************************************)
(* C22  Startup failure is fatal before serving: the transport is          *)
(* connected, and a tool call served, only after the startup ping          *)
(* succeeded on the created pool; if the startup probe fails, the process  *)
(* exits with a failure status, no tool call has been served and nothing   *)
(* happens afterwards.                                                     *)
(***************************************************************************)
C22_FatalBeforeServing ==
  /\ [](/\ Serving => boot.pinged /\ Probe \notin pool.lessees
        /\ SomeCallServed => Serving
        /\ StartupFailed =>
             /\ life.exited /\ boot.status = defined(1)
             /\ ~boot.pinged /\ ~SomeCallServed)
  /\ [][~StartupFailed]_vars

\* the ping of the startup probe failed and the process has exited
C22_Witness ==
  /\ StartupFailed /\ boot.error = ConnLost
  /\ life.exited /\ boot.status = defined(1)

\* the pool holds no more connections than its limit, and a connection is
\* leased only to a call that has a command in flight
PoolIntact ==
  /\ Cardinality(pool.lessees) + pool.idle <= connectionLimit
  /\ \A c \in pool.lessees : c \in Slots /\ calls[c].pc = "awaiting"

(***************************************************************************)
(* C23  Failure isolation: a tool call that ends in a failure envelope     *)
(* after a driver error on every attempt, or after the pool gave it no     *)
(* connection, leaves the process running, holds no lease and waits for    *)
(* none, and leaves the pool intact; a call that ends after such a failure *)
(* and whose driver executions succeeded returns a success envelope.       *)
(***************************************************************************)
C23_FailureIsolation ==
  /\ \A c \in Slots :
       EndedOnDriverError(calls[c]) =>
         /\ HasKey(calls[c].envelope, "error")
         /\ ~life.exited
         /\ c \notin pool.lessees /\ ~Waiting(c)
         /\ life.hadFailure
  /\ life.hadFailure =>
       /\ Serving => PoolIntact
       /\ \A c \in Slots :
            (calls[c].pc = "done" /\ AllSucceeded(calls[c]) /\ ResultsAsProduced(calls[c]))
              => HasKey(calls[c].envelope, "success")

\* the one slot of the gate workload: an earlier call of it ended in a failure
\* envelope, and the call it serves now has ended in a success envelope
C23_Witness ==
  /\ load = "gate"
  /\ life.hadFailure
  /\ calls[1].pc = "done" /\ AllSucceeded(calls[1])
  /\ HasKey(calls[1].envelope, "success")
  /\ pool.lessees = {}

\* the attempts of a call that have concluded, over all its statements
RECURSIVE Concluded(_)
Concluded(hist) ==
  IF hist = <<>> THEN 0 ELSE Len(Head(hist)) + Concluded(Tail(hist))

(***************************************************************************)
(* C24  Attempt logging: every execution attempt of every tool call,       *)
(* successful or failed, writes exactly one line to the diagnostic         *)
(* channel: the lines a call has written are as many as its concluded      *)
(* attempts.                                                               *)
(***************************************************************************)
C24_AttemptLogging ==
  \A c \in Slots : calls[c].logged = Concluded(calls[c].hist)

\* main has loaded the configuration it hands to createMCPServer
ConfigLoaded == boot.phase # "main"

(***************************************************************************)
(* C25  Environment variables override mcp.json: when mcp.json is present  *)
(* and valid and an MCP_DB_* variable is also set, the configuration       *)
(* handed to the server has the variable's value in that field.            *)
(***************************************************************************)
C25_EnvironmentOverridesFile ==
  (load = "boot" /\ ConfigLoaded /\ boot.file.readable) =>
    /\ boot.env.MCP_DB_HOST # undefined =>
         boot.config.host = boot.env.MCP_DB_HOST[1]
    /\ boot.env.MCP_DB_PASSWORD # undefined =>
         boot.config.password = boot.env.MCP_DB_PASSWORD[1]
    /\ boot.env.MCP_DB_DATABASE # undefined =>
         boot.config.database = boot.env.MCP_DB_DATABASE

\* the texts of the server-info statements: version, uptime status, current
\* database
InfoOrder ==
  <<"SELECT VERSION() as version", "SHOW STATUS LIKE \"Uptime\"",
    "SELECT DATABASE() as current_database">>

\* the latest attempt of the s-th statement of a call succeeded / failed
LastSucceeded(call, s) ==
  Len(call.hist[s]) >= 1 /\ call.hist[s][Len(call.hist[s])].ok
LastFailed(call, s) ==
  Len(call.hist[s]) >= 1 /\ ~call.hist[s][Len(call.hist[s])].ok

(***************************************************************************)
(* C26  server-info ordering: server_info issues its three fixed           *)
(* statements in the order version, uptime status, current database, each  *)
(* through the retrying executor; a statement is issued only after every   *)
(* earlier one succeeded, so when one fails on all its attempts no later   *)
(* one is issued and the call ends with one error envelope; a success      *)
(* envelope is returned only when all three succeeded.                     *)
(***************************************************************************)
C26_ServerInfoOrdering ==
  /\ [](\A c \in Slots :
         (calls[c].tool = "server_info" /\ calls[c].stmt >= 1) =>
           /\ calls[c].stmt <= Len(InfoOrder)
           /\ calls[c].sent.sql = InfoOrder[calls[c].stmt]
           /\ calls[c].sent.params = <<>>
           /\ Len(calls[c].hist) = calls[c].stmt
           /\ \A s \in 1 .. calls[c].stmt :
                /\ Invocations(calls[c], s) \in 1 .. retries
                /\ s < calls[c].stmt => LastSucceeded(calls[c], s)
           /\ (calls[c].pc = "done" /\ LastFailed(calls[c], calls[c].stmt)) =>
                /\ HasKey(calls[c].envelope, "error")
                /\ Len(calls[c].hist[calls[c].stmt]) = retries
           /\ (calls[c].pc = "done" /\ HasKey(calls[c].envelope, "success")) =>
                /\ calls[c].stmt = Len(InfoOrder)
                /\ \A s \in 1 .. Len(InfoOrder) : LastSucceeded(calls[c], s))
  /\ [][\A c \in Slots :
          (calls[c].tool = "server_info" /\ calls'[c].tool = "server_info") =>
            \/ calls'[c].stmt = calls[c].stmt
            \/ calls'[c].stmt = calls[c].stmt + 1 /\ calls[c].pc # "done"]_vars

\* the uptime statement failed on all its attempts after the version statement
\* succeeded: the call has ended with an error envelope, the third unissued
C26_Witness ==
  \E c \in Slots :
    /\ calls[c].tool = "server_info" /\ calls[c].pc = "done"
    /\ calls[c].stmt = 2
    /\ LastSucceeded(calls[c], 1)
    /\ Len(calls[c].hist[2]) = retries /\ LastFailed(calls[c], 2)
    /\ HasKey(calls[c].envelope, "error")

\* call c is in the executor's wait between two attempts
InBackoff(call) == call.pc = "backoff"

(***************************************************************************)
(* C27  Backoff placement: the executor waits the backoff exactly once     *)
(* between a failed attempt and the next attempt of the same statement,    *)
(* and nowhere else: a wait begins only as a failed attempt that is not    *)
(* the final one concludes, and ends only as the next attempt begins; the  *)
(* first attempt of a statement begins without a wait, and a later attempt *)
(* begins only out of the wait.                                            *)
(***************************************************************************)
C27_BackoffPlacement ==
  /\ [](\A c \in Slots :
         InBackoff(calls[c]) =>
           /\ LastFailed(calls[c], calls[c].stmt)
           /\ Len(calls[c].hist[calls[c].stmt]) = calls[c].attempt
           /\ calls[c].attempt < retries
           /\ c \notin pool.lessees)
  /\ [][\A c \in Slots :
          /\ (InBackoff(calls'[c]) /\ ~InBackoff(calls[c])) => AttemptConcludes(c)
          /\ (InBackoff(calls[c]) /\ calls'[c] # calls[c]) =>
               /\ AttemptBegins(c)
               /\ calls'[c].stmt = calls[c].stmt
               /\ calls'[c].attempt = calls[c].attempt + 1
          /\ (AttemptBegins(c) /\ calls'[c].attempt = 1) => ~InBackoff(calls[c])
          /\ (AttemptBegins(c) /\ calls'[c].attempt > 1) => InBackoff(calls[c])
          /\ (AttemptConcludes(c) /\ LastSucceeded(calls'[c], calls[c].stmt)) =>
               ~InBackoff(calls'[c])
          /\ (AttemptConcludes(c) /\ calls[c].attempt = retries) =>
               ~InBackoff(calls'[c])]_vars

\* the second attempt of a statement is in flight, begun after the wait that
\* followed its failed first attempt
C27_Witness ==
  \E c \in Slots :
    /\ calls[c].pc = "awaiting" /\ calls[c].attempt = 2
    /\ Len(calls[c].hist[calls[c].stmt]) = 1
    /\ LastFailed(calls[c], calls[c].stmt)

\* the pool has an idle connection or may open another one
FreeConnection == pool.idle > 0 \/ Cardinality(pool.lessees) + pool.idle < connectionLimit

\* another call than c is in the executor's wait or has a command in flight
OthersPending(c) ==
  \E d \in Slots \ {c} : calls[d].pc \in {"backoff", "awaiting"}

(***************************************************************************)
(* C28  No global serialization: while other calls wait in backoff or on   *)
(* a driver round trip, a call whose attempt begins when the pool has a    *)
(* free connection gets a connection in that step; the driver's answer to  *)
(* its command can be taken whatever the others do; and a successful       *)
(* answer to its last statement ends it with its envelope.                 *)
(***************************************************************************)
C28_NoGlobalSerialization ==
  /\ [](\A c \in Slots :
         (calls[c].pc = "awaiting" /\ c \in pool.lessees /\ OthersPending(c))
           => ENABLED DriverReturn(c))
  /\ [][\A c \in Slots :
          /\ (AttemptBegins(c) /\ OthersPending(c) /\ FreeConnection /\ ~life.closed)
               => c \in pool'.lessees
          /\ (/\ AttemptConcludes(c) /\ OthersPending(c)
              /\ calls[c].stmt = Len(statements(calls[c]))
              /\ LastSucceeded(calls'[c], calls[c].stmt))
               => calls'[c].pc = "done" /\ IsEnvelope(calls'[c].envelope)]_vars

\* one call waits in backoff, one waits on the driver, and a third has its
\* success envelope
C28_Witness ==
  \E c \in Slots, d \in Slots, e \in Slots :
    /\ calls[d].pc = "backoff"
    /\ calls[e].pc = "awaiting" /\ e \in pool.lessees
    /\ calls[c].pc = "done" /\ HasKey(calls[c].envelope, "success")

\* the first whitespace-delimited token of a text, in lower case
LeadingToken(s) ==
  LET text == Canonical(s)
      gaps == {i \in 1 .. Len(text) : Blank(text[i])}
  IN  IF gaps = {} THEN text
      ELSE SubSeq(text, 1, (CHOOSE i \in gaps : \A j \in gaps : i <= j) - 1)

\* the leading token of the text is one of the words
LeadsWith(s, words) == \E w \in words : LeadingToken(s) = toLowerCase(w)

(***************************************************************************)
(* C29  Whole-token matching: the gates decide on the leading token, not   *)
(* on a character prefix: a query_database call whose leading token is not *)
(* SELECT, SHOW, DESCRIBE or EXPLAIN is rejected without execution, and an *)
(* execute_sql call whose leading token is not DELETE, UPDATE, DROP or     *)
(* TRUNCATE is not asked for confirmation, also when the token is a longer *)
(* word that starts with a keyword (SELECTX, DROPALL).                     *)
(***************************************************************************)
C29_WholeTokenMatching ==
  \A c \in Slots :
    /\ (calls[c].tool = "query_database" /\ ~LeadsWith(calls[c].sql, ReadOnlyWords))
         => calls[c].stmt = 0
    /\ (/\ calls[c].tool = "execute_sql" /\ calls[c].pc = "done"
        /\ ~LeadsWith(calls[c].sql, DangerousWords))
         => ~HasKey(calls[c].envelope, "requiresConfirmation")

\* createMCPServer has finished: it returned the server, or it threw
StartupFinished == Serving \/ StartupFailed

(***************************************************************************)
(* C30  The startup probe releases its lease on every path: once           *)
(* createMCPServer has finished, by returning or by throwing, whether the  *)
(* ping succeeded or failed, no connection is leased by the probe.         *)
(***************************************************************************)
C30_ProbeLeaseReleased ==
  StartupFinished => Probe \notin pool.lessees

\* the handler of call c has not returned yet
Unfinished(call) == call.pc \in {"running", "awaiting", "backoff"}

\* call c ends in this step, the pool being closed already
EndsAfterClose(c) ==
  /\ life.closed
  /\ Unfinished(calls[c])
  /\ calls'[c].pc = "done"

\* the answer that ends call c is that of a command that held a connection,
\* leased before the pool was closed
AnswerOfCommandInFlight(c) == calls[c].pc = "awaiting" /\ c \in pool.lessees

HandedToExecutor(call) ==
  /\ call.stmt = 1
  /\ call.sent = [sql |-> call.sql, params |-> <<>>]
  /\ ~HasKey(call.envelope, "requiresConfirmation")

(***************************************************************************)
(* C32  Gate permissiveness of execute: execute_sql returns a              *)
(* confirmation-required envelope only for a text that begins with         *)
(* DELETE, UPDATE, DROP or TRUNCATE and comes with confirm false; with     *)
(* confirm true every text is handed to the executor, and a text that      *)
(* begins with CREATE, ALTER or INSERT, or with SELECT, SHOW, DESCRIBE or   *)
(* EXPLAIN, is handed to the executor also with confirm false.             *)
(***************************************************************************)
C32_ExecuteGatePermissive ==
  \A c \in Slots :
    calls[c].tool = "execute_sql" =>
      /\ HasKey(calls[c].envelope, "requiresConfirmation") =>
           ~calls[c].confirm /\ BeginsWithOneOf(calls[c].sql, DangerousWords)
      /\ calls[c].confirm => HandedToExecutor(calls[c])
      /\ BeginsWithOneOf(calls[c].sql, StructuralWords \cup ReadOnlyWords) =>
           HandedToExecutor(calls[c])

\* an UPDATE with confirm true, as in the README's example, and it was executed
C32_Witness ==
  \E c \in Slots :
    /\ calls[c].tool = "execute_sql"
    /\ calls[c].confirm
    /\ calls[c].sql = UPDATE \o <<" ", "1">>
    /\ calls[c].pc = "done"
    /\ HasKey(calls[c].envelope, "success")

====
